---- MODULE Spec2Model ----
(***************************************************************************)
(* Model of the super-tabs widget: the root component (SuperTabsComponent),*)
(* the content pane (SuperTabsContainerComponent) and the button bar       *)
(* (SuperTabsToolbarComponent), with the browser as environment (pointer   *)
(* events, clock, layout width, scroll offset, animation frames).          *)
(*                                                                         *)
(* Conventions.                                                            *)
(*  - An optional value (T | undefined) is a sequence: <<>> is undefined,  *)
(*    <<v>> is the value v.                                                *)
(*  - An index that may be fractional (selected index, argument of         *)
(*    alignIndicator) is an integer number of hundredths of a tab; an      *)
(*    integer tab index is a plain integer.                                *)
(*  - Every handler is an operator from a world record (all components and *)
(*    the environment) to the world after the handler has run; an action   *)
(*    applies one handler, with every call it makes, to the variables.     *)
(*    Calls between components go through Stencil's element proxies and    *)
(*    run as microtasks of the same task, so a handler with everything it  *)
(*    calls is one step; selectTab, whose awaits let another selectTab     *)
(*    call interleave, is a process with a program counter.                *)
(***************************************************************************)
EXTENDS Integers, Sequences, FiniteSets, TLC

VARIABLES root, ct, tb, env, calls, hist

vars == <<root, ct, tb, env, calls, hist>>

(* ------------------------------ bounds -------------------------------- *)
MaxTabs == 2      \* the largest number of tabs (and of buttons)
MaxActions == 2   \* selectTab calls, pointer gestures and layout changes in one behaviour
MaxMoves == 2     \* touchmove events in one gesture
MaxTicks == 1     \* clock advances in one behaviour
MaxFrames == 3    \* animation-frame callbacks pending at once
MaxDeferrals == 3 \* consecutive deferrals of indexTabs that are counted
MaxScrollTicks == 2   \* clock advances while scroll animations run
ScrollTickMs == 80    \* milliseconds per such advance: between the two durations
TickMs == 320     \* milliseconds per clock advance: longer than every time window
Epoch == 1000     \* the clock's value when the page loads

(* ------------------------ program constants --------------------------- *)
Scale == 100                  \* Math.round(x * 100) / 100: hundredths
MaxCosineSq == 58682          \* cos(40 deg)^2 * 100000, maxDragAngle: 40
CosineDen == 100000
AbandonSlack == 100           \* vertical slack that abandons a gesture
ClickWindow == 150            \* button-bar tap window in ms
DragThreshold == 20           \* DEFAULT_CONFIG.dragThreshold
TransitionDuration == 150     \* DEFAULT_CONFIG.transitionDuration
ShortSwipeDuration == 300     \* DEFAULT_CONFIG.shortSwipeDuration
maxInitRetries == 1000

(* --------------------------- input sets ------------------------------- *)
Widths == {50, 100}           \* layout widths of the content pane
\* its width when the page loads: the widest
InitialWidth == CHOOSE w \in Widths : \A v \in Widths : v <= w
Xs == {5, 15, 35}             \* pointer x coordinates (clientX)
Ys == {0, 120}                \* pointer y coordinates (clientY)
SideMenuThresholds == {10}    \* config.sideMenuThreshold given by the host
SideMenus == {"none", "left"} \* config.sideMenu given by the host
InitialIndexes == {0, 1}      \* the active-tab-index attribute given by the host

(* ------------------------ non-finite numbers -------------------------- *)
\* 0 / 0 and x / 0, x > 0: two values outside every range of the model; both
\* are whole numbers of hundredths, so x % 1 > 0 is false of them as it is of
\* NaN and Infinity
NaN == -1000000
Infinity == 1000000
IsNaN(v) == v = NaN

ScrollTargets == {0, 40, 100}                   \* targets of scrollEl
ScrollDurations == {50, TransitionDuration}    \* its durations: drag-live and animated

(* --------------------------- optionals -------------------------------- *)
Undefined == <<>>
Some(v) == <<v>>
IsDef(o) == o # <<>>
Val(o) == o[1]

(* ---------------------------- arithmetic ------------------------------ *)
Max(a, b) == IF a >= b THEN a ELSE b
Min(a, b) == IF a <= b THEN a ELSE b
Abs(a) == IF a >= 0 THEN a ELSE -a
\* Math.round of the rational n/d, d > 0: halves round toward +infinity
RoundDiv(n, d) == (2 * n + d) \div (2 * d)
\* Math.ceil of the rational n/d, d > 0
CeilDiv(n, d) == -((-n) \div d)
\* Math.floor, Math.ceil and x % 1 of an index in hundredths
Floor(i) == i \div Scale
Ceil(i) == CeilDiv(i, Scale)
Rem1(i) == IF i >= 0 THEN i % Scale ELSE -((-i) % Scale)

(* ------------------------- the browser -------------------------------- *)
\* requestAnimationFrame(callback): the callback joins the frame queue
RequestAnimationFrame(w, job) == [w EXCEPT !.env.frames = Append(@, job)]

\* el.scroll(x, 0) / el.scrollTo(x, 0) on the content pane: the browser keeps
\* scrollLeft within the scrollable range (and takes NaN as 0); each tab is as
\* wide as the pane
ElMaxScroll(w) == Max(0, w.env.nTabs * w.env.elWidth - w.env.elWidth)
ElScroll(w, x) == [w EXCEPT !.env.scrollLeft = Max(0, Min(ElMaxScroll(w), x))]

\* getTs() and Date.now()
getTs(w) == w.env.now

(* ------------------------------ utils --------------------------------- *)
\* easeInOutCubic(e/d) as the rational <<numerator, denominator>>
easeInOutCubic(e, d) ==
    IF 2 * e < d THEN <<4 * e * e * e, d * d * d>>
    ELSE <<4 * (e - d) * (e - d) * (e - d) + d * d * d, d * d * d>>

getScrollCoord(start, dest, startTime, currentTime, duration) ==
    LET e == Min(duration, currentTime - startTime)
        f == easeInOutCubic(e, duration)
    IN CeilDiv(f[1] * (dest - start) + start * f[2], f[2])

\* scroll(el, startX, x, startTime, duration): one tick of the eased scroll
scroll(w, startX, x, startTime, duration) ==
    LET currentTime == getTs(w)
        scrollX == IF startX = x \/ IsNaN(x) THEN x
                   ELSE getScrollCoord(startX, x, startTime, currentTime, duration)
        w1 == ElScroll(w, scrollX)
    IN IF currentTime - startTime >= duration THEN w1
       ELSE RequestAnimationFrame(w1, [kind |-> "scrollTick", startX |-> startX, x |-> x,
                                       startTime |-> startTime, duration |-> duration])

\* scrollEl(el, x, native, duration) on the content pane
scrollEl(w, x, native, duration) ==
    IF duration <= 0 THEN RequestAnimationFrame(w, [kind |-> "scrollJump", x |-> x])
    ELSE IF native /\ w.env.nativeScrollAvailable
         THEN RequestAnimationFrame(w, [kind |-> "scrollJump", x |-> x])
    ELSE RequestAnimationFrame(w, [kind |-> "scrollStart", x |-> x, duration |-> duration])

\* checkGesture(newCoords, initialCoords, config)
checkGesture(newCoords, initialCoords, config) ==
    LET deltaX == newCoords.x - initialCoords.x
        deltaY == newCoords.y - initialCoords.y
        distSq == deltaX * deltaX + deltaY * deltaY
    IN IF distSq >= config.dragThreshold * config.dragThreshold
       THEN \* |cos(atan2(dy, dx))| > cos(maxDragAngle)
            deltaX * deltaX * CosineDen > MaxCosineSq * distSq
       ELSE FALSE

(* ----------------------------- toolbar -------------------------------- *)
HasButton(w, i) == i >= 0 /\ i < Len(w.tb.buttons)

\* activeButton when the element it refers to is no longer among the buttons
Detached == -1

\* alignIndicator(index, animate): index in hundredths
alignIndicator(w, index, animate) ==
    IF ~w.tb.showIndicator \/ ~w.tb.indicatorEl THEN w
    ELSE LET remainder == Rem1(index)
             isDragging == remainder > 0
             w1 == [w EXCEPT !.tb.isDragging = isDragging]
         IN IF ~HasButton(w1, Floor(index)) THEN w1
            ELSE IF isDragging /\ Floor(index) # Ceil(index) /\ ~HasButton(w1, Ceil(index))
                 THEN w1
            ELSE \* the callback keeps whether the index it applies is fractional
                 RequestAnimationFrame(w1, [kind |-> "indicator",
                                            interpolating |-> (remainder # 0)])

\* markButtonActive(button): button is an index into buttons, or undefined
markButtonActive(w, button) ==
    IF ~IsDef(button) THEN w
    ELSE LET cleared == IF IsDef(w.tb.activeButton) /\ HasButton(w, Val(w.tb.activeButton))
                        THEN [w.tb.buttons EXCEPT ![Val(w.tb.activeButton) + 1].active = FALSE]
                        ELSE w.tb.buttons
         IN [w EXCEPT !.tb.buttons = [cleared EXCEPT ![Val(button) + 1].active = TRUE],
                      !.tb.activeButton = button]

\* setActiveTab(index, align, animate)
tbSetActiveTab(w, index0, align, animate) ==
    LET index == IF IsNaN(index0) THEN NaN ELSE Max(0, Min(index0, Len(w.tb.buttons) - 1))
        w1 == [w EXCEPT !.tb.activeTabIndex = index]
        w2 == markButtonActive(w1, IF HasButton(w1, index) THEN Some(index) ELSE Undefined)
    IN IF align THEN alignIndicator(w2, index * Scale, animate) ELSE w2

\* setSelectedTab(index, animate): index in hundredths
tbSetSelectedTab(w, index, animate) == alignIndicator(w, index, animate)

\* updateWidth() of the toolbar
tbUpdateWidth(w) == [w EXCEPT !.tb.width = RoundDiv(w.env.elWidth * 100, 1) \div 100]

\* updateThresholds()
updateThresholds(w) ==
    IF ~IsDef(w.tb.config) THEN w
    ELSE LET c == Val(w.tb.config)
             l == IF c.sideMenu \in {"both", "left"} THEN c.sideMenuThreshold
                  ELSE w.tb.leftThreshold
             r == IF c.sideMenu \in {"both", "right"} THEN c.sideMenuThreshold
                  ELSE w.tb.rightThreshold
         IN [w EXCEPT !.tb.leftThreshold = l, !.tb.rightThreshold = r]

\* queryButtons(): the buttons in the DOM, indexed, flagged active by index
queryButtons(w) ==
    LET n == w.env.nButtons
        bs == [i \in 1..n |-> [active |-> (w.tb.activeTabIndex = i - 1)]]
    IN [w EXCEPT !.tb.buttons = bs,
                 !.tb.activeButton = IF w.tb.activeTabIndex < n /\ w.tb.activeTabIndex >= 0
                                     THEN Some(w.tb.activeTabIndex) ELSE @]

\* onSlotChange() of the toolbar
tbOnSlotChange(w) ==
    LET w1 == queryButtons(tbUpdateWidth(w))
    IN tbSetActiveTab(w1, w1.tb.activeTabIndex, TRUE, FALSE)

(* ------------------------ root: event handlers ------------------------ *)
\* this.tabChange.emit(detail)
tabChangeEmit(w, detail) == [w EXCEPT !.hist.emitted = Append(@, detail)]

\* emitTabChangeEvent(newIndex, oldIndex?)
emitTabChangeEvent(w, newIndex, oldIndex0) ==
    IF ~IsNaN(newIndex) /\ newIndex < 0 THEN w
    ELSE LET oldIndex == IF ~IsDef(oldIndex0) \/ (~IsNaN(Val(oldIndex0)) /\ Val(oldIndex0) < 0)
                         THEN w.root.activeTabIndex ELSE Val(oldIndex0)
         IN tabChangeEmit(w, [changed |-> (newIndex # oldIndex \/ IsNaN(newIndex)),
                              index |-> newIndex])

\* onContainerActiveTabChange(ev), ev.detail = index
onContainerActiveTabChange(w, index) ==
    LET w1 == emitTabChangeEvent(w, index, Undefined)
        w2 == [w1 EXCEPT !.root.activeTabIndex = index]
    IN IF w2.root.toolbar THEN tbSetActiveTab(w2, index, TRUE, TRUE) ELSE w2

\* a root that treats a drag preview as a commit
onContainerSelectedTabChangeCommits(w, index) == onContainerActiveTabChange(w, Floor(index))

\* onContainerSelectedTabChange(ev), ev.detail = index in hundredths
onContainerSelectedTabChange(w, index) ==
    IF w.root.toolbar THEN tbSetSelectedTab(w, index, FALSE) ELSE w

(* ---------------------------- container ------------------------------- *)
\* updateWidth(): the measured width, rounded to 1e-4
ctUpdateWidth(w) == [w EXCEPT !.ct.width = RoundDiv(w.env.elWidth * 10000, 1) \div 10000]

\* positionToIndex(scrollX): scrollX / width, in hundredths
positionToIndex(w, scrollX) ==
    IF w.ct.width = 0 THEN (IF scrollX = 0 THEN NaN ELSE Infinity)
    ELSE (scrollX * Scale) \div w.ct.width

\* indexToPosition(tabIndex): tabIndex in hundredths;
\* Math.round(tabIndex * width * 10000) / 10000, a whole number of pixels here
indexToPosition(w, tabIndex) == RoundDiv(tabIndex * w.ct.width * 10000, Scale) \div 10000

\* Math.max(0, Math.min(this.scrollWidth - this.width, x)): the clamp of
\* onTouchMove, calcSelectedTab and normalizeSelectedTab
clampScrollX(w, x) == Max(0, Min(w.ct.scrollWidth - w.ct.width, x))

\* calcSelectedTab(): in hundredths
calcSelectedTab(w) ==
    LET scrollX == clampScrollX(w, w.env.scrollLeft)
    IN positionToIndex(w, scrollX)

\* normalizeSelectedTab(index): index in hundredths, the result a whole index.
\* With a width of 0 indexToPosition gives 0 (NaN for a non-finite index) and
\* the division 0 / 0; a NaN index gives NaN throughout
normalizeSelectedTab(w, index) ==
    IF w.ct.width = 0 \/ IsNaN(index) THEN NaN
    ELSE LET scrollX == clampScrollX(w, indexToPosition(w, index))
         IN RoundDiv(scrollX, w.ct.width)

\* moveContainer(scrollX, animate)
moveContainer(w, scrollX, animate) ==
    IF animate
    THEN scrollEl(w, scrollX, Val(w.ct.config).nativeSmoothScroll,
                  Val(w.ct.config).transitionDuration)
    ELSE ElScroll(w, scrollX)

\* moveContainerByIndex(index, animate)
moveContainerByIndex(w, index, animate) ==
    LET scrollX == IF IsNaN(index) THEN NaN ELSE indexToPosition(w, index * Scale)
    IN IF scrollX = 0 /\ index > 0 THEN w ELSE moveContainer(w, scrollX, animate)

\* a lazyLoadTabs() that unloads whatever config.unloadWhenInvisible says
lazyLoadTabsUnloads(w) ==
    IF ~IsDef(w.ct.activeTabIndex) THEN w
    ELSE IF ~IsDef(w.ct.config) THEN w
    ELSE IF ~Val(w.ct.config).lazyLoad
         THEN [w EXCEPT !.ct.tabs = [i \in DOMAIN @ |-> [loaded |-> TRUE, visible |-> TRUE]]]
    ELSE LET activeTab == Val(w.ct.activeTabIndex)
             flags(i) == [visible |-> (i - 1 >= activeTab - 1 /\ i - 1 <= activeTab + 1),
                          loaded |-> (i - 1 >= activeTab - 1 /\ i - 1 <= activeTab + 1)]
         IN [w EXCEPT !.ct.tabs = [i \in DOMAIN @ |-> flags(i)], !.ct.width = w.env.elWidth]

\* lazyLoadTabs()
lazyLoadTabs(w) ==
    IF ~IsDef(w.ct.activeTabIndex) THEN w
    ELSE IF ~IsDef(w.ct.config) THEN w
    ELSE IF ~Val(w.ct.config).lazyLoad
         THEN [w EXCEPT !.ct.tabs = [i \in DOMAIN @ |-> [loaded |-> TRUE, visible |-> TRUE]]]
    ELSE LET activeTab == Val(w.ct.activeTabIndex)
             min == activeTab - 1
             max == activeTab + 1
             flags(i, tab) ==
                 LET visible == (~IsNaN(activeTab) /\ i - 1 >= min /\ i - 1 <= max)
                 IN [visible |-> visible,
                     loaded |-> (visible \/ (IF Val(w.ct.config).unloadWhenInvisible
                                             THEN FALSE ELSE tab.loaded))]
         IN \* this.tabs = tabs re-renders the container: componentDidRender()
            ctUpdateWidth([w EXCEPT !.ct.tabs = [i \in DOMAIN @ |-> flags(i, @[i])]])

\* this.activeTabIndexChange.emit(index): the root hears it once it listens
activeTabIndexChangeEmit(w, index) ==
    LET w1 == [w EXCEPT !.hist.activeEmits = @ + 1]
    IN IF w1.root.listensContainer THEN onContainerActiveTabChange(w1, index) ELSE w1

\* this.selectedTabIndexChange.emit(index): index in hundredths
selectedTabIndexChangeEmit(w, index) ==
    IF w.root.listensContainer THEN onContainerSelectedTabChange(w, index) ELSE w

\* an updateActiveTabIndex(index, emit) that leaves the tabs' flags alone
updateActiveTabIndexOnly(w, index, emit) ==
    LET w1 == [w EXCEPT !.ct.activeTabIndex = Some(index)]
    IN IF emit THEN activeTabIndexChangeEmit(w1, index) ELSE w1

\* updateActiveTabIndex(index, emit)
updateActiveTabIndex(w, index, emit) ==
    LET w1 == [w EXCEPT !.ct.activeTabIndex = Some(index)]
        w2 == IF emit THEN activeTabIndexChangeEmit(w1, index) ELSE w1
    IN IF Val(w2.ct.config).lazyLoad THEN lazyLoadTabs(w2) ELSE w2

\* updateSelectedTabIndex(index): index in hundredths
updateSelectedTabIndex(w, index) ==
    IF ~IsNaN(index) /\ w.ct.selectedTabIndex = Some(index) THEN w
    ELSE selectedTabIndexChangeEmit([w EXCEPT !.ct.selectedTabIndex = Some(index)], index)

\* setActiveTabIndex(index, moveContainer, animate); scrollToTop() scrolls inside
\* the active tab, which is no state of this model
setActiveTabIndexReturns(w, index) ==
    w.ct.activeTabIndex = Some(index) /\ ~w.ct.autoScrollTop

setActiveTabIndex(w, index, move, animate) ==
    IF setActiveTabIndexReturns(w, index) THEN w
    ELSE LET w1 == IF move THEN moveContainerByIndex(w, index, animate) ELSE w
         IN updateActiveTabIndex(w1, index, FALSE)

\* indexTabs(); hist.deferrals counts the consecutive deferrals, as far as
\* MaxDeferrals + 1
indexTabs(w) ==
    IF w.ct.width = 0
    THEN RequestAnimationFrame([w EXCEPT !.hist.deferrals = Min(@ + 1, MaxDeferrals + 1)],
                               [kind |-> "indexTabs"])
    ELSE LET n == w.env.nTabs
             tabs == [i \in 1..n |-> IF i <= Len(w.ct.tabs) THEN w.ct.tabs[i]
                                     ELSE [loaded |-> w.env.tabDefault,
                                           visible |-> w.env.tabDefault]]
             w1 == [w EXCEPT !.ct.scrollWidth = w.ct.width * n, !.ct.tabs = tabs,
                             !.hist.deferrals = 0]
             w2 == IF w1.ct.ready /\ IsDef(w1.ct.activeTabIndex)
                   THEN moveContainerByIndex(w1, Val(w1.ct.activeTabIndex), TRUE)
                   ELSE w1
             w3 == lazyLoadTabs(w2)
             c == w3.ct.config
             l == IF IsDef(c) /\ Val(c).sideMenu \in {"both", "left"}
                  THEN Val(c).sideMenuThreshold ELSE w3.ct.leftThreshold
             r == IF IsDef(c) /\ Val(c).sideMenu \in {"both", "right"}
                  THEN Val(c).sideMenuThreshold ELSE w3.ct.rightThreshold
             w4 == [w3 EXCEPT !.ct.leftThreshold = l, !.ct.rightThreshold = r]
         IN IF IsDef(w4.ct.activeTabIndex)
            THEN [moveContainerByIndex(w4, Val(w4.ct.activeTabIndex), FALSE)
                    EXCEPT !.ct.ready = TRUE]
            ELSE w4

\* reindexTabs()
reindexTabs(w) == indexTabs(ctUpdateWidth(w))

\* coords.x < this.leftThreshold || coords.x > vw - this.rightThreshold, after
\* updateWidth(): the pointer is in the side menu touch zone
inSideMenuZone(w, x) ==
    LET w1 == ctUpdateWidth(w)
    IN x < w1.ct.leftThreshold \/ x > w1.ct.width - w1.ct.rightThreshold

\* onTouchStart(ev) reaches the test of the zone and ignores the gesture
ignoresGesture(w, coords, avoid) ==
    /\ w.ct.swipeEnabled
    /\ ~(Val(w.ct.config).avoidElements /\ avoid)
    /\ inSideMenuZone(w, coords.x)

\* onTouchStart(ev) of the container, coords = pointerCoord(ev)
ctOnTouchStart(w, coords, avoid) ==
    IF ~w.ct.swipeEnabled THEN w
    ELSE IF Val(w.ct.config).avoidElements /\ avoid THEN w
    ELSE LET w1 == ctUpdateWidth(w)
         IN IF inSideMenuZone(w, coords.x)
            THEN w1
            ELSE [w1 EXCEPT !.ct.initialTimestamp =
                                IF Val(w1.ct.config).shortSwipeDuration > 0
                                THEN Some(getTs(w1)) ELSE @,
                            !.ct.initialCoords = Some(coords),
                            !.ct.lastPosX = Some(coords.x)]

\* onTouchMove(ev) of the container
ctOnTouchMove(w, coords) ==
    IF ~w.ct.swipeEnabled \/ ~IsDef(w.ct.initialCoords) \/ ~IsDef(w.ct.lastPosX) THEN w
    ELSE IF ~w.ct.isDragging /\ ~checkGesture(coords, Val(w.ct.initialCoords), Val(w.ct.config))
    THEN IF Abs(coords.y - Val(w.ct.initialCoords).y) > AbandonSlack
         THEN [w EXCEPT !.ct.initialCoords = Undefined, !.ct.lastPosX = Undefined]
         ELSE w
    ELSE LET w1 == [w EXCEPT !.ct.isDragging = TRUE]
             deltaX == Val(w1.ct.lastPosX) - coords.x
             scrollX == clampScrollX(w1, w1.env.scrollLeft + deltaX)
         IN IF deltaX = 0 THEN w1
            ELSE IF scrollX = w1.env.scrollLeft THEN w1
            ELSE LET index == RoundDiv(positionToIndex(w1, scrollX) * 100, Scale)
                     w2 == updateSelectedTabIndex(w1, index)
                 IN ElScroll([w2 EXCEPT !.ct.lastPosX = Some(coords.x)], scrollX)

\* onTouchEnd(ev) of the container
ctOnTouchEnd(w, coords) ==
    IF ~w.ct.swipeEnabled \/ ~w.ct.isDragging THEN w
    ELSE LET c == Val(w.ct.config)
             deltaTime == getTs(w) - Val(w.ct.initialTimestamp)
             shortSwipe == c.shortSwipeDuration > 0 /\ deltaTime <= c.shortSwipeDuration
             shortSwipeDelta == coords.x - Val(w.ct.initialCoords).x
             selected == calcSelectedTab(w)
             expectedTabIndex == RoundDiv(selected, Scale)
             adjusted == IF shortSwipe /\ ~IsNaN(selected)
                            /\ Some(expectedTabIndex) = w.ct.activeTabIndex
                         THEN selected + (IF shortSwipeDelta > 0 THEN -Scale ELSE Scale)
                         ELSE selected
             selectedTabIndex == normalizeSelectedTab(w, adjusted)
             w1 == updateActiveTabIndex(w, selectedTabIndex, TRUE)
             w2 == moveContainerByIndex(w1, selectedTabIndex, TRUE)
         IN [w2 EXCEPT !.ct.isDragging = FALSE, !.ct.initialCoords = Undefined,
                       !.ct.lastPosX = Undefined]

(* --------------------- root: calls into the surfaces ------------------ *)
\* onToolbarButtonClick(ev), ev.detail.index = index
onToolbarButtonClick(w, index) ==
    LET w1 == IF w.root.container THEN setActiveTabIndex(w, index, TRUE, TRUE) ELSE w
        w2 == emitTabChangeEvent(w1, index, Undefined)
    IN [w2 EXCEPT !.root.activeTabIndex = index]

\* this.buttonClick.emit(button): the root hears it once it listens
buttonClickEmit(w, index) ==
    IF w.root.listensToolbar THEN onToolbarButtonClick(w, index) ELSE w

\* onButtonClick(button), button.index = index
onButtonClick(w, index) ==
    LET w1 == [w EXCEPT !.tb.lastClickTs = getTs(w)]
    IN buttonClickEmit(tbSetActiveTab(w1, index, TRUE, TRUE), index)

(* --------------------------- toolbar events --------------------------- *)
\* onClick(ev): ev.target is inside button number `button`, or is the toolbar
\* itself (button undefined)
tbOnClick(w, button) ==
    IF getTs(w) - w.tb.touchStartTs <= ClickWindow THEN w
    ELSE IF ~IsDef(button) THEN w
    ELSE onButtonClick(w, Val(button))

\* onTouchStart(ev) of the toolbar
tbOnTouchStart(w, coords) ==
    IF ~w.tb.scrollable THEN w
    ELSE IF coords.x < w.tb.leftThreshold \/ coords.x > w.tb.width - w.tb.rightThreshold
    THEN w
    ELSE [w EXCEPT !.tb.touchStartTs = getTs(w), !.tb.initialCoords = Some(coords),
                   !.tb.lastPosX = Some(coords.x)]

\* onTouchMove(ev) of the toolbar; its frame callback only writes the button
\* bar's scroll offset, which is no state of this model
tbOnTouchMove(w, coords) ==
    IF ~w.tb.buttonsContainerEl \/ ~w.tb.scrollable \/ ~IsDef(w.tb.initialCoords)
       \/ ~IsDef(w.tb.lastPosX)
    THEN w
    ELSE IF ~w.tb.isDragging /\ ~checkGesture(coords, Val(w.tb.initialCoords), Val(w.tb.config))
    THEN IF Abs(coords.y - Val(w.tb.initialCoords).y) > AbandonSlack
         THEN [w EXCEPT !.tb.initialCoords = Undefined, !.tb.lastPosX = Undefined]
         ELSE w
    ELSE LET w1 == [w EXCEPT !.tb.isDragging = TRUE]
             deltaX == Val(w1.tb.lastPosX) - coords.x
         IN IF deltaX = 0 THEN w1 ELSE [w1 EXCEPT !.tb.lastPosX = Some(coords.x)]

\* onTouchEnd(ev) of the toolbar: ev.target is inside button number `button`, or
\* is the toolbar itself (button undefined);
\* Math.abs(coords.x - undefined) is NaN, and NaN < dragThreshold is false
tbOnTouchEnd(w, coords, button) ==
    LET reset == [w EXCEPT !.tb.isDragging = FALSE, !.tb.initialCoords = Undefined,
                           !.tb.lastPosX = Undefined]
    IN IF w.tb.lastClickTs < w.tb.touchStartTs /\ getTs(w) - w.tb.touchStartTs <= ClickWindow
          /\ IsDef(w.tb.initialCoords)
          /\ IsDef(w.tb.config)
          /\ Abs(coords.x - Val(w.tb.initialCoords).x) < Val(w.tb.config).dragThreshold
       THEN IF ~IsDef(button) THEN w
            ELSE LET w1 == onButtonClick(w, Val(button))
            IN [w1 EXCEPT !.tb.isDragging = FALSE, !.tb.initialCoords = Undefined,
                          !.tb.lastPosX = Undefined]
       ELSE reset

(* --------------------------- root lifecycle --------------------------- *)
\* propagateConfig(): a changed config prop re-renders the child
\* (toolbar: componentWillUpdate(), componentDidRender(); container:
\* componentDidRender())
propagateConfig(w) ==
    LET w1 == IF w.root.container /\ w.ct.config # Some(w.root.config)
              THEN ctUpdateWidth([w EXCEPT !.ct.config = Some(w.root.config)])
              ELSE w
    IN IF w1.root.toolbar /\ w1.tb.config # Some(w1.root.config)
       THEN tbUpdateWidth(updateThresholds([w1 EXCEPT !.tb.config = Some(w1.root.config)]))
       ELSE w1

\* indexChildren()
indexChildren(w) ==
    propagateConfig([w EXCEPT !.root.container = (w.env.hasContainer \/ @),
                              !.root.toolbar = (w.env.hasToolbar \/ @)])

\* componentDidLoad() of the root
rootComponentDidLoad(w) ==
    LET w1 == indexChildren(w)
        i == w1.root.activeTabIndex
        w2 == IF i > 0 /\ w1.root.container THEN setActiveTabIndex(w1, i, TRUE, FALSE) ELSE w1
        w3 == IF i > 0 /\ w2.root.toolbar THEN tbSetActiveTab(w2, i, TRUE, FALSE) ELSE w2
    IN RequestAnimationFrame([w3 EXCEPT !.root.loaded = TRUE], [kind |-> "initComponent"])

\* setupEventListeners()
setupEventListeners(w) ==
    [w EXCEPT !.root.listensContainer = (w.root.container \/ @),
              !.root.listensToolbar = (w.root.toolbar \/ @)]

\* an initComponent() that does not count its attempts
initComponentUncounted(w) ==
    IF ~w.root.container
    THEN RequestAnimationFrame(w, [kind |-> "initComponent"])
    ELSE LET i == w.root.activeTabIndex
             w1 == IF i > 0 THEN moveContainerByIndex(w, i, FALSE) ELSE w
             w2 == IF i > 0 /\ w1.root.toolbar THEN tbSetActiveTab(w1, i, TRUE, FALSE) ELSE w1
         IN [setupEventListeners(propagateConfig(w2)) EXCEPT !.root.initResolved = TRUE]

\* initComponent()
initComponent(w) ==
    IF ~w.root.container /\ w.root.initAttempts + 1 <= maxInitRetries
    THEN RequestAnimationFrame([w EXCEPT !.root.initAttempts = @ + 1],
                               [kind |-> "initComponent"])
    ELSE LET w0 == IF ~w.root.container THEN [w EXCEPT !.root.initAttempts = @ + 1] ELSE w
             i == w0.root.activeTabIndex
             w1 == IF i > 0 /\ w0.root.container THEN moveContainerByIndex(w0, i, FALSE) ELSE w0
             w2 == IF i > 0 /\ w1.root.toolbar THEN tbSetActiveTab(w1, i, TRUE, FALSE) ELSE w1
         IN [setupEventListeners(propagateConfig(w2)) EXCEPT !.root.initResolved = TRUE]

\* onConfigChange(config): setConfig(config), the children keep theirs until the
\* next propagateConfig()
onConfigChange(w, config) == [w EXCEPT !.root.config = config]

\* onSlotChange() of the container
ctOnSlotChange(w) == indexTabs(ctUpdateWidth(w))

\* onWindowResize(): this.container.reindexTabs() throws when there is no container
onWindowResize(w) ==
    LET w1 == IF w.root.toolbar
              THEN tbSetSelectedTab(w, w.root.activeTabIndex * Scale, FALSE) ELSE w
    IN IF w1.root.container THEN reindexTabs(w1) ELSE [w1 EXCEPT !.hist.threw = TRUE]

\* componentDidLoad() of the container
ctComponentDidLoad(w) == [indexTabs(ctUpdateWidth(w)) EXCEPT !.ct.loaded = TRUE]

\* componentDidLoad() of the toolbar; render() has set indicatorEl and
\* buttonsContainerEl
tbComponentDidLoad(w) ==
    LET w1 == queryButtons([w EXCEPT !.tb.indicatorEl = w.tb.showIndicator,
                                     !.tb.buttonsContainerEl = TRUE])
    IN RequestAnimationFrame([tbUpdateWidth(w1) EXCEPT !.tb.loaded = TRUE],
                             [kind |-> "tbSetActiveTab"])

(* ------------------------- animation frames --------------------------- *)
\* the frame callback of alignIndicator(): the style it writes, as whether the
\* position applied is interpolated and the transition duration; the button bar's
\* own scroll offset (adjustContainerScroll) is no state of this model
indicatorFrame(w, job) ==
    [w EXCEPT !.tb.indicator =
        Some([interpolating |-> job.interpolating,
              duration |-> IF w.tb.isDragging THEN 0
                           ELSE Val(w.tb.config).transitionDuration])]

\* one callback of the frame queue
runFrame(w, job) ==
    CASE job.kind = "scrollStart" ->
            scroll(w, w.env.scrollLeft, job.x, getTs(w), job.duration)
      [] job.kind = "scrollTick" ->
            scroll(w, job.startX, job.x, job.startTime, job.duration)
      [] job.kind = "scrollJump" -> ElScroll(w, job.x)
      [] job.kind = "indicator" -> indicatorFrame(w, job)
      [] job.kind = "tbSetActiveTab" -> tbSetActiveTab(w, w.tb.activeTabIndex, TRUE, FALSE)
      [] job.kind = "indexTabs" -> indexTabs(ctUpdateWidth(w))
      [] job.kind = "initComponent" -> initComponent(w)

\* one animation frame: the callbacks requested before it run in order; those
\* they request wait for the next frame
RECURSIVE runFrames(_, _)
runFrames(w, jobs) ==
    IF jobs = <<>> THEN w ELSE runFrames(runFrame(w, Head(jobs)), Tail(jobs))

(* ------------------------------ state --------------------------------- *)
DefaultConfig(sideMenu, sideMenuThreshold, avoidElements) ==
    [dragThreshold |-> DragThreshold, allowElementScroll |-> FALSE,
     sideMenu |-> sideMenu, sideMenuThreshold |-> sideMenuThreshold,
     transitionDuration |-> TransitionDuration, shortSwipeDuration |-> ShortSwipeDuration,
     avoidElements |-> avoidElements, lazyLoad |-> FALSE, unloadWhenInvisible |-> FALSE,
     nativeSmoothScroll |-> FALSE]

\* configs with lazy loading switched on or off
LazyConfigs ==
    {[DefaultConfig("none", t, FALSE) EXCEPT !.lazyLoad = l, !.unloadWhenInvisible = u] :
        t \in SideMenuThresholds, l \in BOOLEAN, u \in BOOLEAN}

\* the configs given by the host: the default one, one with a side menu, one
\* with avoidElements
Configs == {DefaultConfig(m, t, FALSE) : m \in SideMenus, t \in SideMenuThresholds}
           \cup {DefaultConfig("none", t, TRUE) : t \in SideMenuThresholds}

NoPointer == [on |-> "none", x |-> 0, y |-> 0, x0 |-> 0, y0 |-> 0,
              button |-> Undefined, moves |-> 0]

NoAct == [kind |-> "none", index |-> Undefined, preRoot |-> 0, preCt |-> Undefined,
          preTb |-> 0, far |-> FALSE, clicked |-> FALSE, excluded |-> FALSE]

NoCall == [done |-> FALSE, index |-> 0, animate |-> FALSE, emit |-> FALSE, lastIndex |-> 0,
           preCt |-> Undefined, preTb |-> 0, nTabs |-> 0, emitted |-> <<>>,
           slot |-> Undefined, latest |-> 0, overlap |-> FALSE]

\* the record of the last finished selectTab call and of the last pointer
\* action lasts until the next step
Fresh(h) ==
    IF env.ptr.on = "none"
    THEN [h EXCEPT !.call = NoCall, !.act = NoAct, !.emitted = <<>>, !.activeEmits = 0]
    ELSE [h EXCEPT !.call = NoCall]

World == [root |-> root, ct |-> ct, tb |-> tb, env |-> env, hist |-> Fresh(hist)]

Apply(w) ==
    /\ Len(w.env.frames) <= MaxFrames
    /\ root' = w.root
    /\ ct' = w.ct
    /\ tb' = w.tb
    /\ env' = w.env
    /\ hist' = w.hist

\* tasks (events, frames) run only when no microtask is pending
NoMicrotask == calls = <<>> \/ ~root.initResolved

\* the state after construction: the host's config and active-tab-index
\* attribute, the children in the DOM, the pane's layout width
InitWith(configs, indexes, counts, widths, containers, toolbars, scrollables, budget, defaults) ==
    /\ \E cfg \in configs, index \in indexes :
         root = [activeTabIndex |-> index, container |-> FALSE, toolbar |-> FALSE,
                 config |-> cfg, initAttempts |-> 0, initResolved |-> FALSE,
                 listensContainer |-> FALSE, listensToolbar |-> FALSE, loaded |-> FALSE]
    /\ ct = [config |-> Undefined, swipeEnabled |-> TRUE, autoScrollTop |-> FALSE,
             tabs |-> <<>>, initialCoords |-> Undefined, lastPosX |-> Undefined,
             isDragging |-> FALSE, initialTimestamp |-> Undefined,
             activeTabIndex |-> Undefined, selectedTabIndex |-> Undefined,
             leftThreshold |-> 0, rightThreshold |-> 0, scrollWidth |-> 0,
             ready |-> FALSE, width |-> 0, loaded |-> FALSE]
    /\ \E scrollable \in scrollables :
         tb = [config |-> Undefined, showIndicator |-> TRUE, scrollable |-> scrollable,
               buttons |-> <<>>, width |-> 0, activeButton |-> Undefined,
               activeTabIndex |-> 0, indicatorEl |-> FALSE, buttonsContainerEl |-> FALSE,
               initialCoords |-> Undefined, lastPosX |-> Undefined, touchStartTs |-> 0,
               lastClickTs |-> 0, isDragging |-> FALSE, leftThreshold |-> 0,
               rightThreshold |-> 0, indicator |-> Undefined, loaded |-> FALSE]
    /\ \E n \in counts, width \in widths, hasContainer \in containers,
          hasToolbar \in toolbars, tabDefault \in defaults :
         env = [now |-> Epoch, ticks |-> 0, elWidth |-> width, scrollLeft |-> 0,
                frames |-> <<>>, actions |-> 0, budget |-> budget,
                nTabs |-> n, nButtons |-> n, tabDefault |-> tabDefault,
                hasContainer |-> hasContainer, hasToolbar |-> hasToolbar,
                nativeScrollAvailable |-> TRUE, ptr |-> NoPointer]
    /\ calls = <<>>
    /\ hist = [emitted |-> <<>>, activeEmits |-> 0, threw |-> FALSE, deferrals |-> 0,
               act |-> NoAct, call |-> NoCall, scrolls |-> <<>>]

Init == InitWith(Configs, InitialIndexes, {MaxTabs}, {InitialWidth}, {TRUE}, {TRUE},
                 BOOLEAN, MaxActions, {FALSE})

(* ----------------------------- lifecycle ------------------------------ *)
CtDidLoad ==
    /\ env.hasContainer /\ ~ct.loaded
    /\ Apply(ctComponentDidLoad(World))
    /\ UNCHANGED calls

TbDidLoad ==
    /\ env.hasToolbar /\ ~tb.loaded
    /\ Apply(tbComponentDidLoad(World))
    /\ UNCHANGED calls

\* children load before their parent
RootDidLoad ==
    /\ ~root.loaded
    /\ env.hasContainer => ct.loaded
    /\ env.hasToolbar => tb.loaded
    /\ Apply(rootComponentDidLoad(World))
    /\ UNCHANGED calls

\* the components load in one flush, before the first animation frame
Frame ==
    /\ NoMicrotask /\ root.loaded
    /\ env.frames # <<>>
    /\ Apply(runFrames([World EXCEPT !.env.frames = <<>>], env.frames))
    /\ UNCHANGED calls

Tick ==
    /\ NoMicrotask /\ root.loaded
    /\ env.ticks < MaxTicks
    /\ env' = [env EXCEPT !.now = @ + TickMs, !.ticks = @ + 1]
    /\ hist' = Fresh(hist)
    /\ UNCHANGED <<root, ct, tb, calls>>

(* ----------------------------- selectTab ------------------------------ *)
SelectTabIndexes == -1 .. env.nTabs

\* selectTab(index, animate, emit) is called: it waits for initPromise
\* the pending calls once selectTab(index) is issued while they run: each
\* remembers that it overlaps and the index of the call issued last
Overlapped(cs, index) ==
    [i \in DOMAIN cs |-> [cs[i] EXCEPT !.latest = index, !.overlap = TRUE]]

SelectTabCall ==
    /\ env.actions < env.budget
    /\ \A i \in 1..Len(calls) : calls[i].pc = "init"
    /\ Len(env.frames) <= MaxFrames
    /\ \E index \in SelectTabIndexes, animate \in BOOLEAN, emit \in BOOLEAN :
         calls' = Append(Overlapped(calls, index),
                         [index |-> index, animate |-> animate, emit |-> emit,
                          pc |-> "init", lastIndex |-> 0, preCt |-> Undefined,
                          preTb |-> 0, slot |-> Undefined,
                          latest |-> index, overlap |-> (calls # <<>>)])
    /\ hist' = Fresh(hist)
    /\ env' = [env EXCEPT !.actions = @ + 1]
    /\ UNCHANGED <<root, ct, tb>>

\* the last step of selectTab: the notification and the root's active index
selectTabFinish(w, c) ==
    LET w1 == IF c.emit THEN emitTabChangeEvent(w, c.index, Some(c.lastIndex)) ELSE w
        mine == SubSeq(w1.hist.emitted, Len(w.hist.emitted) + 1, Len(w1.hist.emitted))
    IN [w1 EXCEPT !.root.activeTabIndex = c.lastIndex,
                  !.hist.emitted = w.hist.emitted,
                  !.hist.call = [done |-> TRUE, index |-> c.index, animate |-> c.animate,
                                 emit |-> c.emit, lastIndex |-> c.lastIndex,
                                 preCt |-> c.preCt, preTb |-> c.preTb,
                                 nTabs |-> w.env.nTabs, emitted |-> mine,
                                 slot |-> c.slot, latest |-> c.latest,
                                 overlap |-> c.overlap]]

\* one step of selectTab between two awaits: the world after it and the call
\* with its next program counter
selectTabStep(w, c) ==
    CASE c.pc = "init" ->
            [w |-> w,
             c |-> [c EXCEPT !.lastIndex = w.root.activeTabIndex,
                             !.preCt = w.ct.activeTabIndex,
                             !.preTb = w.tb.activeTabIndex,
                             !.pc = IF w.root.container THEN "setActiveTabIndex"
                                    ELSE "setActiveTab"]]
      [] c.pc = "setActiveTabIndex" ->
            IF setActiveTabIndexReturns(w, c.index)
            THEN [w |-> w, c |-> [c EXCEPT !.pc = "setActiveTab"]]
            ELSE [w |-> moveContainerByIndex(w, c.index, c.animate),
                  c |-> [c EXCEPT !.pc = "updateActiveTabIndex"]]
      [] c.pc = "updateActiveTabIndex" ->
            [w |-> updateActiveTabIndex(w, c.index, FALSE),
             c |-> [c EXCEPT !.pc = "setActiveTab"]]
      [] c.pc = "setActiveTab" ->
            [w |-> IF w.root.toolbar THEN tbSetActiveTab(w, c.index, TRUE, c.animate) ELSE w,
             c |-> [c EXCEPT !.pc = "finish"]]
      [] c.pc = "finish" ->
            [w |-> selectTabFinish(w, c), c |-> [c EXCEPT !.pc = "done"]]

\* microtasks run first in, first out
SelectTabStep ==
    /\ root.initResolved
    /\ calls # <<>>
    /\ LET r == selectTabStep(World, Head(calls))
       IN /\ root' = r.w.root /\ ct' = r.w.ct /\ tb' = r.w.tb /\ env' = r.w.env
          /\ hist' = r.w.hist
          /\ calls' = IF r.c.pc = "done" THEN Tail(calls) ELSE Append(Tail(calls), r.c)

(* --------------------------- pointer events --------------------------- *)
\* the widget is painted at the first frame after it loaded; no pointer event
\* reaches it before
Interactive == root.loaded /\ (root.initResolved \/ root.initAttempts > 0)

StartAct(w, kind, index) ==
    [w EXCEPT !.hist.emitted = <<>>, !.hist.activeEmits = 0,
              !.hist.act = [kind |-> kind, index |-> index,
                            preRoot |-> w.root.activeTabIndex,
                            preCt |-> w.ct.activeTabIndex,
                            preTb |-> w.tb.activeTabIndex, far |-> FALSE,
                            clicked |-> FALSE, excluded |-> FALSE]]

Far(w, x, y) ==
    LET dx == x - w.env.ptr.x0
        dy == y - w.env.ptr.y0
    IN dx * dx + dy * dy >= w.root.config.dragThreshold * w.root.config.dragThreshold

CtTouchStart ==
    /\ NoMicrotask /\ Interactive /\ root.container /\ env.ptr.on = "none"
    /\ env.actions < env.budget
    /\ \E x \in Xs, y \in {0}, avoid \in BOOLEAN :
         LET w0 == [StartAct(World, "drag", Undefined) EXCEPT
                       !.env.actions = @ + 1,
                       !.env.ptr = [on |-> "ct", x |-> x, y |-> y, x0 |-> x, y0 |-> y,
                                    button |-> Undefined, moves |-> 0]]
             coords == [x |-> x, y |-> y]
         IN Apply([ctOnTouchStart(w0, coords, avoid) EXCEPT
                      !.hist.act.excluded = ignoresGesture(w0, coords, avoid)])
    /\ UNCHANGED calls

CtTouchMove ==
    /\ NoMicrotask /\ env.ptr.on = "ct" /\ env.ptr.moves < MaxMoves
    /\ \E x \in Xs, y \in Ys :
         /\ <<x, y>> # <<env.ptr.x, env.ptr.y>>
         /\ LET w0 == [World EXCEPT !.env.ptr.x = x, !.env.ptr.y = y, !.env.ptr.moves = @ + 1,
                                    !.hist.act.far = @ \/ Far(World, x, y)]
            IN Apply(ctOnTouchMove(w0, [x |-> x, y |-> y]))
    /\ UNCHANGED calls

CtTouchEnd ==
    /\ NoMicrotask /\ env.ptr.on = "ct"
    /\ LET w0 == [World EXCEPT !.env.ptr = NoPointer]
       IN Apply(ctOnTouchEnd(w0, [x |-> env.ptr.x, y |-> env.ptr.y]))
    /\ UNCHANGED calls

Buttons == {Undefined} \cup {Some(j) : j \in 0 .. env.nButtons - 1}

TbTouchStart ==
    /\ NoMicrotask /\ Interactive /\ env.hasToolbar /\ env.ptr.on = "none"
    /\ env.actions < env.budget
    /\ \E x \in Xs, y \in {0}, button \in Buttons :
         LET w0 == [StartAct(World, "tap", button) EXCEPT
                       !.env.actions = @ + 1,
                       !.env.ptr = [on |-> "tb", x |-> x, y |-> y, x0 |-> x, y0 |-> y,
                                    button |-> button, moves |-> 0]]
         IN Apply(tbOnTouchStart(w0, [x |-> x, y |-> y]))
    /\ UNCHANGED calls

TbTouchMove ==
    /\ NoMicrotask /\ env.ptr.on = "tb" /\ env.ptr.moves < MaxMoves
    /\ \E x \in Xs, y \in Ys :
         /\ <<x, y>> # <<env.ptr.x, env.ptr.y>>
         /\ LET w0 == [World EXCEPT !.env.ptr.x = x, !.env.ptr.y = y, !.env.ptr.moves = @ + 1,
                                    !.hist.act.far = @ \/ Far(World, x, y)]
            IN Apply(tbOnTouchMove(w0, [x |-> x, y |-> y]))
    /\ UNCHANGED calls

\* a touch that did not move is a tap: the browser sends click after touchend
TbTouchEnd ==
    /\ NoMicrotask /\ env.ptr.on = "tb"
    /\ LET w0 == [World EXCEPT !.env.ptr = IF env.ptr.moves > 0 THEN NoPointer
                                           ELSE [env.ptr EXCEPT !.on = "click"]]
       IN Apply(tbOnTouchEnd(w0, [x |-> env.ptr.x, y |-> env.ptr.y], env.ptr.button))
    /\ UNCHANGED calls

TbClick ==
    /\ NoMicrotask /\ env.ptr.on = "click"
    /\ Apply(tbOnClick([World EXCEPT !.env.ptr = NoPointer, !.hist.act.clicked = TRUE],
                       env.ptr.button))
    /\ UNCHANGED calls

(* ------------------------------ layout -------------------------------- *)
\* the pane's layout width changes; the browser keeps scrollLeft in range
Relayout(w, width) ==
    LET w1 == [w EXCEPT !.env.elWidth = width, !.env.actions = @ + 1]
    IN [w1 EXCEPT !.env.scrollLeft = Min(@, ElMaxScroll(w1))]

\* the window is resized
WindowResize ==
    /\ NoMicrotask /\ root.loaded /\ env.actions < env.budget
    /\ \E width \in Widths : Apply(onWindowResize(Relayout(World, width)))
    /\ UNCHANGED calls

\* the window is resized while the pane is not laid out (its page is hidden):
\* getBoundingClientRect() reports a width of 0
WindowResizeHidden ==
    /\ NoMicrotask /\ root.loaded /\ env.actions < env.budget
    /\ env.elWidth > 0
    /\ Apply(onWindowResize(Relayout(World, 0)))
    /\ UNCHANGED calls

\* the pane's width changes without the window being resized
LayoutChange ==
    /\ NoMicrotask /\ root.loaded /\ env.ptr.on = "none" /\ env.actions < env.budget
    /\ \E width \in Widths \ {env.elWidth} : Apply(Relayout(World, width))
    /\ UNCHANGED calls

(* ------------------------- config and children ----------------------- *)
\* the host assigns another config to the root
ConfigChange ==
    /\ NoMicrotask /\ root.loaded /\ env.actions < env.budget
    /\ \E config \in LazyConfigs \ {root.config} :
         Apply(onConfigChange([World EXCEPT !.env.actions = @ + 1], config))
    /\ UNCHANGED calls

\* the root's slot changes: onSlotchange() re-indexes the children and calls
\* selectTab(this.activeTabIndex, true, false); the call remembers the active
\* indexes of the surfaces at the slot change
RootSlotChange ==
    /\ NoMicrotask /\ root.loaded /\ env.actions < env.budget
    /\ Apply(indexChildren([World EXCEPT !.env.actions = @ + 1]))
    /\ calls' = Append(Overlapped(calls, root.activeTabIndex),
                       [index |-> root.activeTabIndex, animate |-> TRUE, emit |-> FALSE,
                        pc |-> "init", lastIndex |-> 0, preCt |-> Undefined,
                        preTb |-> 0,
                        slot |-> Some([ct |-> ct.activeTabIndex, tb |-> tb.activeTabIndex]),
                        latest |-> root.activeTabIndex, overlap |-> (calls # <<>>)])

\* a tab is added to or removed from the content pane: its slot changes
TabCounts == {MaxTabs + 1, MaxTabs + 2}

CtSlotChange ==
    /\ NoMicrotask /\ ct.loaded /\ root.loaded /\ env.actions < env.budget
    /\ \E n \in TabCounts \ {env.nTabs} :
         Apply(ctOnSlotChange([World EXCEPT !.env.actions = @ + 1, !.env.nTabs = n]))
    /\ UNCHANGED calls

Next ==
    \/ CtDidLoad
    \/ TbDidLoad
    \/ RootDidLoad
    \/ Frame
    \/ Tick
    \/ SelectTabCall
    \/ SelectTabStep
    \/ CtTouchStart
    \/ CtTouchMove
    \/ CtTouchEnd
    \/ TbTouchStart
    \/ TbTouchMove
    \/ TbTouchEnd
    \/ TbClick
    \/ WindowResize
    \/ LayoutChange

Spec == Init /\ [][Next]_vars

\* the widget with lazy loading: more tabs, the lazy configs, config and child
\* changes
InitLazy == InitWith(LazyConfigs, InitialIndexes, {MaxTabs + 2}, {InitialWidth}, {TRUE},
                     {TRUE}, {FALSE}, MaxActions, BOOLEAN)

NextLazy ==
    \/ CtDidLoad
    \/ TbDidLoad
    \/ RootDidLoad
    \/ Frame
    \/ SelectTabCall
    \/ SelectTabStep
    \/ CtTouchStart
    \/ CtTouchMove
    \/ CtTouchEnd
    \/ TbTouchStart
    \/ TbTouchEnd
    \/ TbClick
    \/ ConfigChange
    \/ RootSlotChange
    \/ CtSlotChange

SpecLazy == InitLazy /\ [][NextLazy]_vars

\* the widget with a child missing: the content pane, the button bar or both
MaxAbsentActions == 1

InitAbsent == InitWith({DefaultConfig("none", t, FALSE) : t \in SideMenuThresholds},
                       InitialIndexes, {MaxTabs}, {InitialWidth}, BOOLEAN, BOOLEAN, {FALSE},
                       MaxAbsentActions, {FALSE})

NextAbsent ==
    \/ CtDidLoad
    \/ TbDidLoad
    \/ RootDidLoad
    \/ Frame
    \/ SelectTabCall
    \/ SelectTabStep
    \/ WindowResize
    \/ RootSlotChange

SpecAbsent == InitAbsent /\ [][NextAbsent]_vars

\* the widget whose content pane never materialises; the browser keeps running
\* animation frames and microtasks
InitRetry == InitWith({DefaultConfig("none", t, FALSE) : t \in SideMenuThresholds},
                      InitialIndexes, {MaxTabs}, {InitialWidth}, {FALSE}, BOOLEAN, {FALSE},
                      MaxAbsentActions, {FALSE})

NextRetry ==
    \/ TbDidLoad
    \/ RootDidLoad
    \/ Frame
    \/ SelectTabCall
    \/ SelectTabStep

SpecRetry ==
    /\ InitRetry /\ [][NextRetry]_vars
    /\ WF_vars(TbDidLoad) /\ WF_vars(RootDidLoad) /\ WF_vars(Frame) /\ WF_vars(SelectTabStep)

\* the widget on a page that can be hidden: the pane's width can be 0
InitHidden == InitWith({DefaultConfig("none", t, FALSE) : t \in SideMenuThresholds},
                       InitialIndexes, {MaxTabs}, {0, InitialWidth}, {TRUE}, {TRUE}, {FALSE},
                       MaxActions, {FALSE})

NextHidden ==
    \/ CtDidLoad
    \/ TbDidLoad
    \/ RootDidLoad
    \/ Frame
    \/ SelectTabCall
    \/ SelectTabStep
    \/ CtTouchStart
    \/ CtTouchMove
    \/ CtTouchEnd
    \/ WindowResize
    \/ WindowResizeHidden

SpecHidden == InitHidden /\ [][NextHidden]_vars

\* the widget with a side menu on the left, and three things happening to it
MaxZoneActions == 3

InitZones == InitWith({DefaultConfig("left", t, FALSE) : t \in SideMenuThresholds},
                      InitialIndexes, {MaxTabs}, {InitialWidth}, {TRUE}, {TRUE}, {FALSE},
                      MaxZoneActions, {FALSE})

NextZones ==
    \/ CtDidLoad
    \/ TbDidLoad
    \/ RootDidLoad
    \/ Frame
    \/ WindowResize
    \/ CtTouchStart
    \/ CtTouchMove
    \/ CtTouchEnd

SpecZones == InitZones /\ [][NextZones]_vars

\* the buttons slotted into the toolbar change: n buttons afterwards, the
\* element activeButton refers to at position `at` among them or removed
TbSlotChange ==
    /\ NoMicrotask /\ tb.loaded /\ env.ptr.on = "none" /\ env.actions < env.budget
    /\ \E n \in (0 .. MaxTabs) \ {env.nButtons} :
         \E at \in IF IsDef(tb.activeButton) THEN {Detached} \cup (0 .. n - 1) ELSE {Detached} :
           LET w0 == [World EXCEPT !.env.nButtons = n, !.env.actions = @ + 1,
                                   !.tb.activeButton = IF IsDef(@) THEN Some(at) ELSE @]
           IN Apply(tbOnSlotChange(w0))
    /\ UNCHANGED calls

\* the widget on a page that can be hidden, its buttons tapped and changed
InitButtons == InitWith({DefaultConfig("none", t, FALSE) : t \in SideMenuThresholds},
                        InitialIndexes, {MaxTabs}, {0, InitialWidth}, {TRUE}, {TRUE}, {FALSE},
                        MaxActions, {FALSE})

NextButtons ==
    \/ CtDidLoad
    \/ TbDidLoad
    \/ RootDidLoad
    \/ Frame
    \/ SelectTabCall
    \/ SelectTabStep
    \/ CtTouchStart
    \/ CtTouchMove
    \/ CtTouchEnd
    \/ TbTouchStart
    \/ TbTouchEnd
    \/ TbClick
    \/ WindowResizeHidden
    \/ TbSlotChange

SpecButtons == InitButtons /\ [][NextButtons]_vars

\* scrollEl(el, x, false, duration) as the button bar calls it on its scrolling
\* element: 50 ms from adjustContainerScroll while a drag is live,
\* config.transitionDuration from moveContainer; applied to the element whose
\* scroll offset the state holds. hist.scrolls lists the targets in call order
StartScroll ==
    /\ NoMicrotask /\ Interactive /\ env.actions < env.budget
    /\ \E x \in ScrollTargets, duration \in ScrollDurations :
         Apply(scrollEl([World EXCEPT !.env.actions = @ + 1, !.hist.scrolls = Append(@, x)],
                        x, FALSE, duration))
    /\ UNCHANGED calls

\* the clock advances while animations run
ScrollTick ==
    /\ NoMicrotask /\ root.loaded
    /\ env.ticks < MaxScrollTicks
    /\ env' = [env EXCEPT !.now = @ + ScrollTickMs, !.ticks = @ + 1]
    /\ hist' = Fresh(hist)
    /\ UNCHANGED <<root, ct, tb, calls>>

InitScroll == InitWith({DefaultConfig("none", t, FALSE) : t \in SideMenuThresholds},
                       InitialIndexes, {MaxTabs}, {InitialWidth}, {TRUE}, {TRUE}, {FALSE},
                       MaxActions, {FALSE})

NextScroll ==
    \/ CtDidLoad
    \/ TbDidLoad
    \/ RootDidLoad
    \/ Frame
    \/ ScrollTick
    \/ StartScroll

SpecScroll == InitScroll /\ [][NextScroll]_vars

(* ============================ properties ============================== *)
TabCount == env.nTabs

Clamp(index, n) == Max(0, Min(index, n - 1))

\* the tab a state shows: the content pane's active index, or the root's while
\* the pane has none yet
ShownTab(rootIndex, ctIndex) == IF IsDef(ctIndex) THEN Val(ctIndex) ELSE rootIndex

\* both gesture trackers are Idle
TrackersIdle ==
    /\ ~ct.isDragging /\ ~IsDef(ct.initialCoords)
    /\ ~tb.isDragging /\ ~IsDef(tb.initialCoords)

\* C1: once selectTab(index, animate, emit) has completed, the root's active
\* index is the selected index clamped to [0, TabCount-1]
SelectTabSetsActiveIndex ==
    hist.call.done => root.activeTabIndex = Clamp(hist.call.index, hist.call.nTabs)

\* C2: every notification of a selectTab call, a tap or a drag has changed = TRUE
\* exactly when its index differs from the tab shown before that action
ChangedIffDiffers ==
    /\ hist.call.done =>
         \A i \in 1..Len(hist.call.emitted) :
            hist.call.emitted[i].changed =
               (hist.call.emitted[i].index # ShownTab(hist.call.lastIndex, hist.call.preCt))
    /\ hist.act.kind # "none" =>
         \A i \in 1..Len(hist.emitted) :
            hist.emitted[i].changed =
               (hist.emitted[i].index # ShownTab(hist.act.preRoot, hist.act.preCt))

\* a tap on a button has run to completion: touchstart, touchend and click
TapDone == hist.act.kind = "tap" /\ hist.act.clicked /\ IsDef(hist.act.index)

\* C3: a tap on button j while the active index is i # j emits exactly one
\* notification {index: j, changed: TRUE} and leaves both trackers Idle,
\* whatever the timing of touchstart, touchend and click
TapNotifiesOnce ==
    (/\ TapDone
     /\ hist.act.preTb = hist.act.preRoot
     /\ ShownTab(hist.act.preRoot, hist.act.preCt) = hist.act.preRoot
     /\ Val(hist.act.index) # hist.act.preRoot)
    => /\ hist.emitted = <<[index |-> Val(hist.act.index), changed |-> TRUE]>>
       /\ TrackersIdle

\* C4: a tap, a drag and a selectTab call with emit = TRUE notify at most
\* once, a selectTab call with emit = FALSE never
AtMostOneNotification ==
    /\ hist.call.done => Len(hist.call.emitted) <= (IF hist.call.emit THEN 1 ELSE 0)
    /\ hist.act.kind # "none" => Len(hist.emitted) <= 1

\* C5: a step in which the content pane reports a drag preview (its selected
\* index changes) leaves the root, the content pane's active index and the
\* toolbar's active index as they were, the toolbar changing only its indicator's
\* dragging flag, and emits no tabChange and no activeTabIndexChange
DragPreviewOnlyAligns ==
    [][ct.selectedTabIndex' # ct.selectedTabIndex =>
          /\ root' = root
          /\ ct.activeTabIndex' = ct.activeTabIndex
          /\ tb' = [tb EXCEPT !.isDragging = tb.isDragging']
          /\ hist.emitted' = hist.emitted
          /\ hist.activeEmits' = hist.activeEmits]_vars

\* a fractional preview has reached the toolbar indicator during a drag
DragPreviewShown ==
    /\ env.ptr.on = "ct" /\ ct.isDragging
    /\ IsDef(ct.selectedTabIndex) /\ Rem1(Val(ct.selectedTabIndex)) # 0
    /\ tb.isDragging
    /\ \E i \in 1..Len(env.frames) :
          env.frames[i].kind = "indicator" /\ env.frames[i].interpolating

\* C6: the root's active index and the content pane's, when it has one, are
\* within [0, TabCount-1]
ActiveIndexInRange ==
    /\ 0 <= root.activeTabIndex /\ root.activeTabIndex < TabCount
    /\ IsDef(ct.activeTabIndex) =>
         (0 <= Val(ct.activeTabIndex) /\ Val(ct.activeTabIndex) < TabCount)

\* C7: the selected index the content pane reports during a drag is within
\* [0, TabCount-1], also when the width was re-measured since the last indexing
SelectedIndexInRange ==
    (env.ptr.on = "ct" /\ ct.isDragging /\ IsDef(ct.selectedTabIndex))
    => (0 <= Val(ct.selectedTabIndex) /\ Val(ct.selectedTabIndex) <= (TabCount - 1) * Scale)

\* C8: selectTab with an index out of [0, TabCount-1] leaves the content pane's
\* and the toolbar's active index at the clamped index, and notifies (when emit
\* is TRUE) with the clamped index
OutOfRangeIsClamped ==
    (hist.call.done /\ (hist.call.index < 0 \/ hist.call.index >= hist.call.nTabs))
    => LET clamped == Clamp(hist.call.index, hist.call.nTabs)
       IN /\ ct.activeTabIndex = Some(clamped)
          /\ tb.activeTabIndex = clamped
          /\ hist.call.emit =>
               (Len(hist.call.emitted) = 1 /\ hist.call.emitted[1].index = clamped)

\* no selectTab call, tap or gesture is in progress
AtRest == calls = <<>> /\ env.ptr.on = "none" /\ root.initResolved

\* C9: at rest the content pane's active index, when it has one, is the
\* toolbar's active index
SurfacesInSync ==
    (AtRest /\ IsDef(ct.activeTabIndex)) => ct.activeTabIndex = Some(tb.activeTabIndex)

\* C10: a gesture on the content pane that stays nearer than dragThreshold to
\* its own pointer-down position emits no activeTabIndexChange and no tabChange
ShortDragNeverCommits ==
    (hist.act.kind = "drag" /\ ~hist.act.far)
    => (hist.activeEmits = 0 /\ hist.emitted = <<>>)

\* the active tab of the current state
ActiveTab == ShownTab(root.activeTabIndex, ct.activeTabIndex)

\* the touchend of a recognised drag that is released within shortSwipeDuration
\* of its touchstart, after a horizontal move, while the rounded fractional
\* index is still the active tab
ShortSwipeRelease ==
    /\ env.ptr.on = "ct" /\ env.ptr.on' = "none"
    /\ ct.isDragging /\ IsDef(ct.initialTimestamp)
    /\ env.now - Val(ct.initialTimestamp) <= Val(ct.config).shortSwipeDuration
    /\ env.ptr.x # env.ptr.x0
    /\ RoundDiv(calcSelectedTab(World), Scale) = ActiveTab

\* C11: a short swipe released while the rounded index is still the active tab
\* commits the active tab moved by one in the flick direction, clamped to
\* [0, TabCount-1]
ShortSwipeMovesOneTab ==
    [][ShortSwipeRelease =>
          ct.activeTabIndex' =
             Some(Clamp(ActiveTab + (IF env.ptr.x - env.ptr.x0 > 0 THEN -1 ELSE 1),
                        TabCount))]_vars

\* lazy loading is on in the content pane's config
LazyOn(c) == IsDef(c.config) /\ Val(c.config).lazyLoad

\* tab i (from 0) is in the lazy window of the content pane's active index
InWindow(c, i) ==
    Val(c.activeTabIndex) - 1 <= i /\ i <= Val(c.activeTabIndex) + 1

AllTabsWhenNotLazy ==
    (IsDef(ct.config) /\ ~Val(ct.config).lazyLoad /\ env.tabDefault)
    => \A i \in 1..Len(ct.tabs) : ct.tabs[i].loaded /\ ct.tabs[i].visible

\* C14: a loaded tab loses its loaded flag only when lazy loading and
\* unloadWhenInvisible are on and the tab is outside the window
LoadedIsSticky ==
    [][\A i \in 1..Min(Len(ct.tabs), Len(ct.tabs')) :
          (ct.tabs[i].loaded /\ ~ct.tabs'[i].loaded)
          => (/\ LazyOn(ct') /\ Val(ct.config').unloadWhenInvisible
              /\ IsDef(ct.activeTabIndex') /\ ~InWindow(ct', i - 1))]_vars

\* a tab that was visited stays loaded outside the window
LoadedOutsideWindow ==
    /\ LazyOn(ct) /\ ~Val(ct.config).unloadWhenInvisible /\ ~env.tabDefault
    /\ IsDef(ct.activeTabIndex)
    /\ \E i \in 1..Len(ct.tabs) :
          ct.tabs[i].loaded /\ ~ct.tabs[i].visible /\ ~InWindow(ct, i - 1)

\* C15: with a surface absent no root operation throws, and a finished
\* selectTab of a valid index has set the surface that is present
AbsentSurfaceIsSkipped ==
    (~env.hasContainer \/ ~env.hasToolbar)
    => /\ ~hist.threw
       /\ (hist.call.done /\ hist.call.index >= 0 /\ hist.call.index < hist.call.nTabs)
          => /\ env.hasToolbar => tb.activeTabIndex = hist.call.index
             /\ env.hasContainer => ct.activeTabIndex = Some(hist.call.index)

\* C16: without a content pane the attempts of initComponent never exceed
\* maxInitRetries + 1, initialisation completes, and every pending selectTab
\* call eventually proceeds
InitRetryIsBounded ==
    /\ [](root.initAttempts <= maxInitRetries + 1)
    /\ <>root.initResolved
    /\ (calls # <<>>) ~> (calls = <<>>)

\* a selectTab call has finished after the retries were used up
CallDoneAfterRetries ==
    /\ ~env.hasContainer /\ root.initAttempts = maxInitRetries + 1 /\ root.initResolved
    /\ hist.call.done

\* C17: indexTabs defers itself on a width of 0 at most MaxDeferrals times in
\* a row, then gives up
IndexingDeferralsBounded == hist.deferrals <= MaxDeferrals

\* scroll offsets below 0, in range and beyond every maximum
ScrollOffsets == {-40, 60, 400}

\* the offsets the content pane may compute: 0 .. (tabCount - 1) * tabWidth
OffsetInRange(x) == x >= 0 /\ x <= (env.nTabs - 1) * ct.width

\* a touchmove of a drag the content pane tracks, and its touchend
DragMoveStep ==
    /\ env.ptr.on = "ct" /\ env'.ptr.on = "ct" /\ env'.ptr.moves = env.ptr.moves + 1
    /\ IsDef(ct.lastPosX) /\ ct'.isDragging

DragEndStep == env.ptr.on = "ct" /\ env'.ptr.on = "none" /\ ct.isDragging

\* C18: every offset the content pane clamps during a drag or for its commit,
\* from the pointer's movement or from any other input, lies in
\* 0 .. (tabCount - 1) * tabWidth
OffsetsAreClamped ==
    [][/\ DragMoveStep =>
            \A x \in ScrollOffsets \cup {env.scrollLeft + Val(ct.lastPosX) - env'.ptr.x} :
               OffsetInRange(clampScrollX(World, x))
       /\ DragEndStep =>
            \A x \in ScrollOffsets \cup {env.scrollLeft} :
               OffsetInRange(clampScrollX(World, x))]_vars

\* C19: no step stores NaN as the content pane's or the root's active index,
\* and no notification carries the index NaN
NoNaNIsStored ==
    /\ ct.activeTabIndex # Some(NaN)
    /\ ~IsNaN(root.activeTabIndex)
    /\ \A i \in DOMAIN hist.emitted : ~IsNaN(hist.emitted[i].index)

\* a touchmove or the touchend of the gesture on the content pane
PaneGestureStep ==
    /\ env.ptr.on = "ct"
    /\ \/ env'.ptr.on = "ct" /\ env'.ptr.moves = env.ptr.moves + 1
       \/ env'.ptr.on = "none"

\* C20: a touchmove or touchend of a gesture whose touchstart the content pane
\* ignored for its side menu zone changes neither the scroll offset, nor the
\* selected index, nor the active index, and emits no notification
ExcludedGestureIsIgnored ==
    [][(PaneGestureStep /\ hist.act.excluded)
       => /\ env'.scrollLeft = env.scrollLeft
          /\ ct'.selectedTabIndex = ct.selectedTabIndex
          /\ ct'.activeTabIndex = ct.activeTabIndex
          /\ root'.activeTabIndex = root.activeTabIndex
          /\ hist'.emitted = hist.emitted
          /\ hist'.activeEmits = hist.activeEmits]_vars

\* the pointer-up of a gesture on the content pane, and on the button bar
PanePointerUp == env.ptr.on = "ct" /\ env'.ptr.on = "none"

BarPointerUp == env.ptr.on = "tb" /\ env'.ptr.on \in {"none", "click"}

\* C21: after every pointer-up on a surface that surface's tracker is Idle:
\* not dragging, start coordinates and last X cleared
CancellationIsTotal ==
    [][/\ PanePointerUp =>
            ~ct'.isDragging /\ ~IsDef(ct'.initialCoords) /\ ~IsDef(ct'.lastPosX)
       /\ BarPointerUp =>
            ~tb'.isDragging /\ ~IsDef(tb'.initialCoords) /\ ~IsDef(tb'.lastPosX)]_vars

\* a touchmove on the named surface that the recognition predicate accepts,
\* measured from the pointer-down that surface recorded
RecognisedMove(on, tracker) ==
    /\ env.ptr.on = on /\ env'.ptr.on = on /\ env'.ptr.moves = env.ptr.moves + 1
    /\ IsDef(tracker.initialCoords) /\ IsDef(tracker.config)
    /\ checkGesture([x |-> env'.ptr.x, y |-> env'.ptr.y], Val(tracker.initialCoords),
                    Val(tracker.config))

\* C22: on each surface the dragging flag becomes true only by a touchmove on
\* that surface which the recognition predicate accepts, while a pointer-down
\* is recorded on that surface
DraggingOnlyFromTracking ==
    [][/\ (~ct.isDragging /\ ct'.isDragging) => RecognisedMove("ct", ct)
       /\ (~tb.isDragging /\ tb'.isDragging) => RecognisedMove("tb", tb)]_vars

\* C23: the content pane's dragging flag and the button bar's dragging flag
\* are never both true
AtMostOneSurfaceDrags == ~(ct.isDragging /\ tb.isDragging)

\* C24: at rest, with no drag in progress on the content pane, the pane's
\* selected index, once it has one, is its active index
SelectedIsActiveAtRest ==
    (AtRest /\ ~ct.isDragging /\ IsDef(ct.selectedTabIndex) /\ IsDef(ct.activeTabIndex))
    => Val(ct.selectedTabIndex) = Val(ct.activeTabIndex) * Scale

\* C25: the indicator style a frame callback has applied has a transition
\* duration of 0 for a fractional index and config.transitionDuration for a
\* whole one
IndicatorDurationMatchesIndex ==
    (IsDef(tb.indicator) /\ IsDef(tb.config))
    => Val(tb.indicator).duration =
          IF Val(tb.indicator).interpolating THEN 0 ELSE Val(tb.config).transitionDuration

\* the selectTab call of a slot change has completed, with no other selectTab
\* call overlapping it; at the slot change the content pane and the toolbar
\* showed the same tab of the widget
SlotChangeDone ==
    /\ hist.call.done /\ IsDef(hist.call.slot)
    /\ calls = <<>>
    /\ hist.call.preCt = Val(hist.call.slot).ct /\ hist.call.preTb = Val(hist.call.slot).tb
    /\ Val(hist.call.slot).ct = Some(Val(hist.call.slot).tb)
    /\ Val(hist.call.slot).tb >= 0 /\ Val(hist.call.slot).tb < hist.call.nTabs

\* C26: once the handler of a slot change on the root has completed, the
\* content pane and the toolbar still show the tab they showed before it, and
\* the handler has emitted no notification
SlotChangeKeepsTab ==
    SlotChangeDone
    => /\ ct.activeTabIndex = Val(hist.call.slot).ct
       /\ tb.activeTabIndex = Val(hist.call.slot).tb
       /\ hist.call.emitted = <<>>

\* the last of several overlapping selectTab calls has completed, and the call
\* issued last asked for a tab of the widget
OverlappingCallsDone ==
    /\ hist.call.done /\ hist.call.overlap /\ calls = <<>>
    /\ hist.call.latest >= 0 /\ hist.call.latest < hist.call.nTabs

\* C27: once overlapping selectTab calls have all completed, the content
\* pane's and the toolbar's active index are the index of the call issued last
LastCallWins ==
    OverlappingCallsDone
    => /\ root.container => ct.activeTabIndex = Some(hist.call.latest)
       /\ root.toolbar => tb.activeTabIndex = hist.call.latest

\* a frame-stepped scroll animation is waiting for a frame
ScrollPending ==
    \E i \in DOMAIN env.frames : env.frames[i].kind \in {"scrollStart", "scrollTick"}

\* C28: once the animations started by several scrollEl calls have all
\* terminated, the element's scroll offset is the target of the call made last
LastScrollWins ==
    (Len(hist.scrolls) >= 2 /\ ~ScrollPending)
    => env.scrollLeft = hist.scrolls[Len(hist.scrolls)]

\* C29: a toolbar with at least one button has its active index among the
\* buttons, and the button at that index is the only one flagged active
OneActiveButton ==
    Len(tb.buttons) >= 1
    => /\ tb.activeTabIndex \in 0 .. Len(tb.buttons) - 1
       /\ \A i \in DOMAIN tb.buttons : tb.buttons[i].active <=> (i - 1 = tb.activeTabIndex)
====
